---- MODULE Spec2Model ----
(***************************************************************************)
(* Model of crates/test_utils/src/docker.rs: the DockerCompose fixture,    *)
(* its engine detection, start (run), endpoint resolution                  *)
(* (get_container_socket) and tear-down (Drop).                            *)
(*                                                                         *)
(* Text is modelled as a sequence of one-character strings, so that        *)
(* trimming, lower-casing, substring search, formatting and socket-address *)
(* parsing are computed character by character as the code computes them.  *)
(***************************************************************************)
EXTENDS Integers, Sequences, FiniteSets, TLC

VARIABLES
    scope,              \* position of the code that owns the fixture
    project_name,       \* DockerCompose.project_name
    docker_compose_dir, \* DockerCompose.docker_compose_dir
    engine_provider,    \* DockerCompose.engine_provider
    log,                \* the subprocess invocations issued so far, in order
    failure,            \* the panic that propagates out of the owning scope
    ret,                \* the last public method call that returned a value:
                        \* its arguments and the value
    lifecycle,          \* the lifecycle states the fixture has gone through
    calls               \* number of public method calls made on the fixture

vars == <<scope, project_name, docker_compose_dir, engine_provider, log,
          failure, ret, lifecycle, calls>>

----------------------------------------------------------------------------
(* Bounds of the model *)

\* public method calls (run, get_container_socket, project_name) per fixture
MaxCalls == 2

----------------------------------------------------------------------------
(* Text helpers: str::trim, str::to_lowercase, str::contains *)

White == {" ", "\n", "\t"}

RECURSIVE trim_start(_)
trim_start(s) ==
    IF s /= <<>> /\ Head(s) \in White THEN trim_start(Tail(s)) ELSE s

RECURSIVE trim_end(_)
trim_end(s) ==
    IF s /= <<>> /\ s[Len(s)] \in White
    THEN trim_end(SubSeq(s, 1, Len(s) - 1))
    ELSE s

trim(s) == trim_end(trim_start(s))

UpperChars == <<"A","B","C","D","E","F","G","H","I","J","K","L","M",
                "N","O","P","Q","R","S","T","U","V","W","X","Y","Z">>
LowerChars == <<"a","b","c","d","e","f","g","h","i","j","k","l","m",
                "n","o","p","q","r","s","t","u","v","w","x","y","z">>

lower_char(c) ==
    IF \E i \in 1..26 : UpperChars[i] = c
    THEN LowerChars[CHOOSE i \in 1..26 : UpperChars[i] = c]
    ELSE c

\* to_lowercase with a bug: the text is left in the case it has
to_lowercase_identity(s) == s

to_lowercase(s) == [i \in 1..Len(s) |-> lower_char(s[i])]

contains(s, pat) ==
    \E i \in 1..(Len(s) - Len(pat) + 1) : SubSeq(s, i, i + Len(pat) - 1) = pat

Podman_name == <<"p","o","d","m","a","n">>

\* u8 / u16 to_string(): decimal text without leading zeros
DecChars == <<"0","1","2","3","4","5","6","7","8","9">>

RECURSIVE to_dec(_)
to_dec(n) ==
    IF n < 10 THEN <<DecChars[n + 1]>>
    ELSE to_dec(n \div 10) \o <<DecChars[(n % 10) + 1]>>

\* {:x}: lower-case hexadecimal text without leading zeros
HexChars == <<"0","1","2","3","4","5","6","7","8","9","a","b","c","d","e","f">>

RECURSIVE to_hex(_)
to_hex(n) ==
    IF n < 16 THEN <<HexChars[n + 1]>>
    ELSE to_hex(n \div 16) \o <<HexChars[(n % 16) + 1]>>

----------------------------------------------------------------------------
(* str::parse::<SocketAddr>(): the standard library's address parser.      *)
(* A parser result is [ok, val, pos]: pos is the index of the next         *)
(* character to read; a failed read leaves the position where it was.      *)

NoParse(i) == [ok |-> FALSE, val |-> 0, pos |-> i]

\* F applied to the value of x, x evaluated once
Bind(x, F(_)) == CHOOSE y \in {F(v) : v \in {x}} : TRUE

\* char::to_digit(radix): -1 when c is no digit of the radix
to_digit(c, radix) ==
    LET lc == lower_char(c)
    IN  IF \E d \in 1..radix : HexChars[d] = lc
        THEN (CHOOSE d \in 1..radix : HexChars[d] = lc) - 1
        ELSE -1

\* index after the run of digits that starts at i
RECURSIVE digits_end(_, _, _)
digits_end(s, i, radix) ==
    IF i <= Len(s) /\ to_digit(s[i], radix) >= 0
    THEN Bind(i + 1, LAMBDA j : digits_end(s, j, radix))
    ELSE i

\* checked_mul / checked_add over s[i..e-1]: a value above max_val stays above
RECURSIVE digits_value(_, _, _, _, _, _)
digits_value(s, i, e, radix, max_val, acc) ==
    IF i >= e \/ acc > max_val THEN acc
    ELSE Bind(acc * radix + to_digit(s[i], radix),
              LAMBDA a : digits_value(s, i + 1, e, radix, max_val, a))

\* Parser::read_number; max_digits = 0 stands for None
read_number(s, i, radix, max_digits, allow_zero_prefix, max_val) ==
    Bind(digits_end(s, i, radix), LAMBDA e :
    Bind(digits_value(s, i, e, radix, max_val, 0), LAMBDA result :
        LET digit_count == e - i
            has_leading_zero == i <= Len(s) /\ s[i] = "0"
        IN  IF digit_count = 0 THEN NoParse(i)
            ELSE IF max_digits > 0 /\ digit_count > max_digits THEN NoParse(i)
            ELSE IF result > max_val THEN NoParse(i)
            ELSE IF ~allow_zero_prefix /\ has_leading_zero /\ digit_count > 1
                 THEN NoParse(i)
            ELSE [ok |-> TRUE, val |-> result, pos |-> e]))

\* Parser::read_given_char
read_given_char(s, i, c) ==
    IF i <= Len(s) /\ s[i] = c
    THEN [ok |-> TRUE, val |-> 0, pos |-> i + 1]
    ELSE NoParse(i)

\* Parser::read_separator: position after the separator that precedes group
\* number index (none before the first group); -1 when it is missing
after_separator(s, i, sep, index) ==
    IF index = 0 THEN i
    ELSE IF read_given_char(s, i, sep).ok THEN i + 1
    ELSE -1

\* one octet of an IPv4 address: no octal form, at most three digits
read_octet(s, i, index) ==
    Bind(after_separator(s, i, ".", index), LAMBDA p :
        IF p < 0 THEN NoParse(i)
        ELSE Bind(read_number(s, p, 10, 3, FALSE, 255), LAMBDA n :
                  IF n.ok THEN n ELSE NoParse(i)))

\* Parser::read_ipv4_addr: val is the four octets
read_ipv4_addr(s, i) ==
    Bind(read_octet(s, i, 0), LAMBDA a :
    Bind(read_octet(s, a.pos, 1), LAMBDA b :
    Bind(read_octet(s, b.pos, 2), LAMBDA c :
    Bind(read_octet(s, c.pos, 3), LAMBDA d :
        IF a.ok /\ b.ok /\ c.ok /\ d.ok
        THEN [ok |-> TRUE, val |-> <<a.val, b.val, c.val, d.val>>,
              pos |-> d.pos]
        ELSE NoParse(i)))))

\* one 16-bit group of an IPv6 address: up to four hexadecimal digits
read_group(s, i, index) ==
    Bind(after_separator(s, i, ":", index), LAMBDA p :
        IF p < 0 THEN NoParse(i)
        ELSE Bind(read_number(s, p, 16, 4, TRUE, 65535), LAMBDA n :
                  IF n.ok THEN n ELSE NoParse(i)))

\* a trailing embedded IPv4 address inside an IPv6 address
read_embedded_ipv4(s, i, index) ==
    Bind(after_separator(s, i, ":", index), LAMBDA p :
        IF p < 0 THEN NoParse(i)
        ELSE Bind(read_ipv4_addr(s, p), LAMBDA n :
                  IF n.ok THEN n ELSE NoParse(i)))

\* read_ipv6_addr's read_groups: [size, ipv4, pos, groups] after reading at
\* most limit groups, index of them read already
RECURSIVE read_groups(_, _, _, _, _)
read_groups(s, i, limit, index, groups) ==
    IF index >= limit
    THEN [size |-> index, ipv4 |-> FALSE, pos |-> i, groups |-> groups]
    ELSE
      Bind(IF index < limit - 1 THEN read_embedded_ipv4(s, i, index)
           ELSE NoParse(i), LAMBDA v4 :
      IF v4.ok
      THEN [size |-> index + 2, ipv4 |-> TRUE, pos |-> v4.pos,
            groups |-> groups \o <<v4.val[1] * 256 + v4.val[2],
                                    v4.val[3] * 256 + v4.val[4]>>]
      ELSE
        Bind(read_group(s, i, index), LAMBDA g :
        IF g.ok
        THEN Bind(Append(groups, g.val), LAMBDA gs :
             Bind(index + 1, LAMBDA next :
                  read_groups(s, g.pos, limit, next, gs)))
        ELSE [size |-> index, ipv4 |-> FALSE, pos |-> i, groups |-> groups]))

\* Parser::read_ipv6_addr: val is the eight groups
read_ipv6_addr(s, i) ==
    Bind(read_groups(s, i, 8, 0, <<>>), LAMBDA head :
        IF head.size = 8
        THEN [ok |-> TRUE, val |-> head.groups, pos |-> head.pos]
        ELSE
          Bind(read_given_char(s, head.pos, ":"), LAMBDA c1 :
          Bind(read_given_char(s, c1.pos, ":"), LAMBDA c2 :
            IF head.ipv4 \/ ~c1.ok \/ ~c2.ok THEN NoParse(i)
            ELSE
              Bind(read_groups(s, c2.pos, 7 - head.size, 0, <<>>), LAMBDA tail :
                [ok |-> TRUE,
                 val |-> head.groups
                         \o [k \in 1..(8 - head.size - tail.size) |-> 0]
                         \o tail.groups,
                 pos |-> tail.pos]))))

\* Parser::read_port
read_port(s, i) ==
    Bind(read_given_char(s, i, ":"), LAMBDA c :
    Bind(read_number(s, c.pos, 10, 0, TRUE, 65535), LAMBDA n :
        IF c.ok /\ n.ok THEN n ELSE NoParse(i)))

\* Parser::read_socket_addr_v4
read_socket_addr_v4(s) ==
    Bind(read_ipv4_addr(s, 1), LAMBDA ip :
    Bind(read_port(s, ip.pos), LAMBDA port :
        IF ip.ok /\ port.ok
        THEN [ok |-> TRUE, val |-> [v |-> 4, ip |-> ip.val, port |-> port.val],
              pos |-> port.pos]
        ELSE NoParse(1)))

\* Parser::read_socket_addr_v6 (a "%zone" suffix of the address is not
\* modelled: no modelled output holds a "%")
read_socket_addr_v6(s) ==
    Bind(read_given_char(s, 1, "["), LAMBDA open :
    Bind(read_ipv6_addr(s, open.pos), LAMBDA ip :
    Bind(read_given_char(s, ip.pos, "]"), LAMBDA close :
    Bind(read_port(s, close.pos), LAMBDA port :
        IF open.ok /\ ip.ok /\ close.ok /\ port.ok
        THEN [ok |-> TRUE, val |-> [v |-> 6, ip |-> ip.val, port |-> port.val],
              pos |-> port.pos]
        ELSE NoParse(1)))))

\* Parser::read_socket_addr: V4 first, then V6
read_socket_addr(s) ==
    Bind(read_socket_addr_v4(s), LAMBDA v4 :
        IF v4.ok THEN v4 ELSE read_socket_addr_v6(s))

\* SocketAddr::from_str: all of the text must be consumed
parse_socket_addr(text) ==
    Bind(text, LAMBDA s :
    Bind(read_socket_addr(s), LAMBDA r :
        IF r.ok /\ r.pos = Len(s) + 1 THEN r ELSE NoParse(1)))

\* IpAddr::is_unspecified: 0.0.0.0 or ::
is_unspecified(addr) == \A k \in 1..Len(addr.ip) : addr.ip[k] = 0

\* Ipv4Addr's Display
ipv4_to_string(o) ==
    to_dec(o[1]) \o <<".">> \o to_dec(o[2]) \o <<".">> \o to_dec(o[3])
    \o <<".">> \o to_dec(o[4])

\* Ipv6Addr's Display, fmt_subslice: groups in hexadecimal joined by ":"
RECURSIVE fmt_subslice(_)
fmt_subslice(chunk) ==
    IF chunk = <<>> THEN <<>>
    ELSE IF Len(chunk) = 1 THEN to_hex(chunk[1])
    ELSE to_hex(chunk[1]) \o <<":">> \o fmt_subslice(Tail(chunk))

\* length of the run of zero groups that starts at group k
RECURSIVE zero_run(_, _)
zero_run(g, k) == IF k <= Len(g) /\ g[k] = 0 THEN 1 + zero_run(g, k + 1) ELSE 0

\* Ipv6Addr's Display: "::ffff:a.b.c.d" for an IPv4-mapped address, else the
\* first longest run of two or more zero groups is written "::"
ipv6_to_string(g) ==
    IF \A k \in 1..5 : g[k] = 0 /\ g[6] = 65535
    THEN <<":",":","f","f","f","f",":">>
         \o ipv4_to_string(<<g[7] \div 256, g[7] % 256,
                             g[8] \div 256, g[8] % 256>>)
    ELSE
      LET longest == CHOOSE k \in 1..8 :
                        /\ \A j \in 1..8 : zero_run(g, j) <= zero_run(g, k)
                        /\ \A j \in 1..(k - 1) : zero_run(g, j) < zero_run(g, k)
          len == zero_run(g, longest)
      IN  IF len > 1
          THEN fmt_subslice(SubSeq(g, 1, longest - 1)) \o <<":",":">>
               \o fmt_subslice(SubSeq(g, longest + len, 8))
          ELSE fmt_subslice(g)

\* IpAddr's to_string
ip_to_string(addr) ==
    IF addr.v = 4 THEN ipv4_to_string(addr.ip) ELSE ipv6_to_string(addr.ip)

----------------------------------------------------------------------------
(* The process executor (crate::cmd), used by every operation.  A response *)
(* of the environment to one subprocess is [ok, stdout]: whether the       *)
(* command could be run and exited with status zero, and what it printed.  *)

NoPanic == "none"

Responses(outputs) ==
    {[ok |-> TRUE, stdout |-> o] : o \in outputs}
    \cup {[ok |-> FALSE, stdout |-> <<>>]}

Statuses == {[ok |-> TRUE, stdout |-> <<>>], [ok |-> FALSE, stdout |-> <<>>]}

\* one invocation as it is issued: the sub-command, its working directory,
\* environment override, project, container and port arguments, and the
\* environment's response
Invocation(cmd, cwd, env, project, container, port, resp) ==
    [cmd |-> cmd, cwd |-> cwd, env |-> env, project |-> project,
     container |-> container, port |-> port,
     ok |-> resp.ok, stdout |-> resp.stdout]

\* get_cmd_output: the trimmed standard output, or a panic that carries desc
get_cmd_output(resp, desc) ==
    IF resp.ok THEN [panic |-> NoPanic, out |-> trim(resp.stdout)]
    ELSE [panic |-> desc, out |-> <<>>]

\* run_command: returns nothing; a panic that carries desc on failure
run_command(resp, desc) == IF resp.ok THEN NoPanic ELSE desc

----------------------------------------------------------------------------
(* DockerCompose: the methods, as functions of the fields, the arguments   *)
(* and the environment's responses.  Each yields the invocations it issues *)
(* (cmds), the panic it ends with (NoPanic when it returns) and its value. *)

Docker == "Docker"
Podman == "Podman"
NoEngine == "NoEngine"

classify(vers_str) ==
    IF contains(vers_str, Podman_name) THEN Podman ELSE Docker

\* get_engine_provider with a bug: a failed probe falls back to Docker
get_engine_provider_default(resp) ==
    [cmds  |-> <<Invocation("--version", <<>>, <<>>, <<>>, <<>>, -1, resp)>>,
     panic |-> NoPanic,
     value |-> IF resp.ok
               THEN classify(to_lowercase(trim(resp.stdout)))
               ELSE Docker]

get_engine_provider(resp) ==
    LET r == get_cmd_output(resp, "Get engine provider")
        vers_str == to_lowercase(trim(r.out))
    IN  [cmds  |-> <<Invocation("--version", <<>>, <<>>, <<>>, <<>>, -1, resp)>>,
         panic |-> r.panic,
         value |-> IF r.panic = NoPanic THEN classify(vers_str) ELSE NoEngine]

get_os_arch(resp) ==
    LET r == get_cmd_output(resp, "Get os arch")
    IN  [cmds  |-> <<Invocation("version", <<>>, <<>>, <<>>, <<>>, -1, resp)>>,
         panic |-> r.panic,
         value |-> trim(r.out)]

\* compose_up with a bug: the platform override is left out
compose_up_no_platform(pn, dir, platform, resp) ==
    Invocation("compose up", dir, <<>>, pn, <<>>, -1, resp)

\* the bring-up invocation of run
compose_up(pn, dir, platform, resp) ==
    Invocation("compose up", dir, platform, pn, <<>>, -1, resp)

\* run with a bug: a failed bring-up is tried a second time
run_retry(pn, dir, archResp, upResp) ==
    LET arch == get_os_arch(archResp)
        up == compose_up(pn, dir, arch.value, upResp)
    IN  IF arch.panic /= NoPanic
        THEN [cmds |-> arch.cmds, panic |-> arch.panic]
        ELSE [cmds  |-> arch.cmds \o (IF upResp.ok THEN <<up>> ELSE <<up, up>>),
              panic |-> run_command(upResp, "Starting docker compose")]

\* run with a bug: the exit status of the bring-up is ignored
run_ignore_failure(pn, dir, archResp, upResp) ==
    LET arch == get_os_arch(archResp)
    IN  IF arch.panic /= NoPanic
        THEN [cmds |-> arch.cmds, panic |-> arch.panic]
        ELSE [cmds  |-> arch.cmds \o <<compose_up(pn, dir, arch.value, upResp)>>,
              panic |-> NoPanic]

run(pn, dir, archResp, upResp) ==
    LET arch == get_os_arch(archResp)
    IN  IF arch.panic /= NoPanic
        THEN [cmds |-> arch.cmds, panic |-> arch.panic]
        ELSE [cmds  |-> arch.cmds \o <<compose_up(pn, dir, arch.value, upResp)>>,
              panic |-> run_command(upResp, "Starting docker compose")]

\* container_name with a bug: the separator of the first compose tool
container_name_underscore(pn, service_name) ==
    pn \o <<"_">> \o service_name \o <<"_","1">>

container_name(pn, service_name) ==
    pn \o <<"-">> \o service_name \o <<"-","1">>

get_container_ip(pn, service_name, resp) ==
    LET name == container_name(pn, service_name)
        r == get_cmd_output(resp, "Get container ip")
    IN  [cmds  |-> <<Invocation("inspect", <<>>, <<>>, <<>>, name, -1, resp)>>,
         panic |-> r.panic,
         value |-> trim(r.out)]

\* mapped_socket_result with a bug: the wildcard address is returned as it is
mapped_socket_result_no_loopback(mapped_socket) ==
    [host |-> ip_to_string(mapped_socket), port |-> mapped_socket.port]

\* the branch on the parsed socket address
mapped_socket_result(mapped_socket) ==
    IF is_unspecified(mapped_socket)
    THEN [host |-> <<"1","2","7",".","0",".","0",".","1">>,
          port |-> mapped_socket.port]
    ELSE [host |-> ip_to_string(mapped_socket), port |-> mapped_socket.port]

\* get_mapped_container_socket with a bug: an output that does not parse
\* yields the loopback address and the port passed in
get_mapped_container_socket_degraded(pn, service_name, unmapped_port, resp) ==
    LET name == container_name(pn, service_name)
        r == get_cmd_output(resp, "Get port mapping")
        parsed == parse_socket_addr(trim(r.out))
        cmds == <<Invocation("port", <<>>, <<>>, <<>>, name, unmapped_port,
                             resp)>>
    IN  IF r.panic /= NoPanic
        THEN [cmds |-> cmds, panic |-> r.panic, value |-> <<>>]
        ELSE IF ~parsed.ok
        THEN [cmds |-> cmds, panic |-> NoPanic,
              value |-> [host |-> <<"1","2","7",".","0",".","0",".","1">>,
                         port |-> unmapped_port]]
        ELSE [cmds |-> cmds, panic |-> NoPanic,
              value |-> mapped_socket_result(parsed.val)]

get_mapped_container_socket(pn, service_name, unmapped_port, resp) ==
    LET name == container_name(pn, service_name)
        r == get_cmd_output(resp, "Get port mapping")
        parsed == parse_socket_addr(trim(r.out))
        cmds == <<Invocation("port", <<>>, <<>>, <<>>, name, unmapped_port,
                             resp)>>
    IN  IF r.panic /= NoPanic
        THEN [cmds |-> cmds, panic |-> r.panic, value |-> <<>>]
        ELSE IF ~parsed.ok
        THEN [cmds |-> cmds, panic |-> "Unable to parse socket address",
              value |-> <<>>]
        ELSE [cmds |-> cmds, panic |-> NoPanic,
              value |-> mapped_socket_result(parsed.val)]

\* the Docker arm of get_container_socket
docker_socket(pn, service_name, unmapped_port, resp) ==
    LET ip == get_container_ip(pn, service_name, resp)
    IN  [cmds |-> ip.cmds, panic |-> ip.panic,
         value |-> IF ip.panic = NoPanic
                   THEN [host |-> ip.value, port |-> unmapped_port]
                   ELSE <<>>]

\* get_container_socket with a bug: the two arms are swapped
get_container_socket_swapped(engine, pn, service_name, unmapped_port, resp) ==
    IF engine = Podman
    THEN docker_socket(pn, service_name, unmapped_port, resp)
    ELSE get_mapped_container_socket(pn, service_name, unmapped_port, resp)

\* get_container_socket with a bug: the engine is detected anew on each call
get_container_socket_reprobe(engine, pn, service_name, unmapped_port, resp) ==
    LET probe == Invocation("--version", <<>>, <<>>, <<>>, <<>>, -1,
                            [ok |-> TRUE, stdout |-> <<>>])
        r == IF engine = Docker
             THEN docker_socket(pn, service_name, unmapped_port, resp)
             ELSE get_mapped_container_socket(pn, service_name, unmapped_port,
                                              resp)
    IN  [cmds |-> <<probe>> \o r.cmds, panic |-> r.panic, value |-> r.value]

\* get_container_socket with a bug: under Podman the container is inspected
\* before the port query
get_container_socket_both(engine, pn, service_name, unmapped_port, resp) ==
    IF engine = Docker
    THEN docker_socket(pn, service_name, unmapped_port, resp)
    ELSE LET ip == get_container_ip(pn, service_name, resp)
             m == get_mapped_container_socket(pn, service_name, unmapped_port,
                                              resp)
         IN  [cmds |-> ip.cmds \o m.cmds, panic |-> m.panic, value |-> m.value]

get_container_socket(engine, pn, service_name, unmapped_port, resp) ==
    IF engine = Docker
    THEN docker_socket(pn, service_name, unmapped_port, resp)
    ELSE get_mapped_container_socket(pn, service_name, unmapped_port, resp)

\* the tear-down invocation of drop
compose_down(pn, dir, resp) ==
    Invocation("compose down", dir, <<>>, pn, <<>>, -1, resp)

drop(pn, dir, resp) ==
    [cmds  |-> <<compose_down(pn, dir, resp)>>,
     panic |-> run_command(resp, "Stopping docker compose")]

----------------------------------------------------------------------------
(* Inputs and environment responses the model draws from *)

ProjectNames == {<<"i","t">>, <<"c","i">>}
ComposeDirs  == {<<"/","a">>, <<"/","b">>}
ServiceNames == {<<"r","e","d","i","s">>, <<"d","b">>}
Ports        == {80, 6379}

VersionOutputs ==
    {<<"D","o","c","k","e","r"," ","2","4","\n">>,
     <<"p","o","d","m","a","n"," ","4">>,
     <<" ","P","o","d","M","a","n","\n">>}

ArchOutputs == {<<"a","m","d","6","4","\n">>, <<" ","a","r","m">>}

\* what an inspect or a port query may print
LookupOutputs ==
    {<<"1","7","2",".","1","8",".","0",".","3","\n">>,
     <<"0",".","0",".","0",".","0",":","5","4","3","2","1","\n">>,
     <<" ","1","0",".","0",".","0",".","5",":","8","0">>,
     <<>>}

----------------------------------------------------------------------------
(* The owning scope and the fixture's life *)

NoReturn ==
    [op |-> "none", service_name |-> <<>>, unmapped_port |-> -1,
     host |-> <<>>, port |-> -1]

Init ==
    /\ scope = "outside"
    /\ project_name = <<>>
    /\ docker_compose_dir = <<>>
    /\ engine_provider = NoEngine
    /\ log = <<>>
    /\ failure = NoPanic
    /\ ret = NoReturn
    /\ lifecycle = <<>>
    /\ calls = 0

\* exit_state with a bug: the fixture stays usable after it was dropped
exit_state_stays_alive(panic, dropPanic) == "alive"

\* how the owning scope ends once the fixture has been dropped: panic is the
\* panic that was unwinding it (NoPanic on a normal exit), dropPanic the one
\* raised by drop.  A panic raised by drop while unwinding aborts the process.
exit_state(panic, dropPanic) ==
    IF panic = NoPanic
    THEN IF dropPanic = NoPanic THEN "returned" ELSE "failed"
    ELSE IF dropPanic = NoPanic THEN "failed" ELSE "aborted"

\* ScopeEnd with a bug: a fixture unwound by a panic is leaked, not dropped
ScopeEnd_leak_on_panic(cmds, panic, dropResp) ==
    LET d == drop(project_name, docker_compose_dir, dropResp)
    IN  /\ log' = IF panic = NoPanic THEN log \o cmds \o d.cmds ELSE log \o cmds
        /\ scope' = IF panic = NoPanic THEN exit_state(panic, d.panic)
                    ELSE "failed"
        /\ failure' = IF panic /= NoPanic THEN panic ELSE d.panic
        /\ UNCHANGED <<project_name, docker_compose_dir, engine_provider, ret>>

\* the fixture goes out of scope, by a return (panic = NoPanic) or unwound by
\* a panic, after cmds were issued: drop runs on it
ScopeEnd(cmds, panic, dropResp) ==
    LET d == drop(project_name, docker_compose_dir, dropResp)
    IN  /\ log' = log \o cmds \o d.cmds
        /\ scope' = exit_state(panic, d.panic)
        /\ failure' = IF panic /= NoPanic THEN panic ELSE d.panic
        /\ UNCHANGED <<project_name, docker_compose_dir, engine_provider, ret>>

\* DockerCompose::new
New(pn, dir, resp) ==
    LET e == get_engine_provider(resp)
    IN  /\ scope = "outside"
        /\ log' = log \o e.cmds
        /\ IF e.panic = NoPanic
           THEN /\ project_name' = pn
                /\ docker_compose_dir' = dir
                /\ engine_provider' = e.value
                /\ scope' = "alive"
                /\ lifecycle' = <<"Uninitialized">>
                /\ UNCHANGED failure
           ELSE /\ scope' = "failed"
                /\ failure' = e.panic
                /\ UNCHANGED <<project_name, docker_compose_dir,
                               engine_provider, lifecycle>>
        /\ UNCHANGED <<ret, calls>>

\* DockerCompose::run
Run(archResp, upResp, dropResp) ==
    LET r == run(project_name, docker_compose_dir, archResp, upResp)
    IN  /\ scope = "alive"
        /\ calls < MaxCalls
        /\ calls' = calls + 1
        /\ IF r.panic = NoPanic
           THEN /\ log' = log \o r.cmds
                /\ lifecycle' = lifecycle \o <<"Starting", "Ready">>
                /\ ret' = NoReturn
                /\ UNCHANGED <<scope, failure, project_name,
                               docker_compose_dir, engine_provider>>
           ELSE /\ ScopeEnd(r.cmds, r.panic, dropResp)
                /\ lifecycle' = lifecycle \o <<"Starting", "Stopped">>

\* GetContainerSocket with a bug: the name of the container that was looked up
\* is kept as the project name
GetContainerSocket_renames(service_name, unmapped_port, resp, dropResp) ==
    /\ scope = "alive"
    /\ calls < MaxCalls
    /\ calls' = calls + 1
    /\ \E r \in {get_container_socket(engine_provider, project_name,
                                      service_name, unmapped_port, resp)} :
        /\ IF r.panic = NoPanic
           THEN /\ log' = log \o r.cmds
                /\ ret' = [op |-> "get_container_socket",
                           service_name |-> service_name,
                           unmapped_port |-> unmapped_port,
                           host |-> r.value.host, port |-> r.value.port]
                /\ project_name' = container_name(project_name, service_name)
                /\ UNCHANGED <<scope, failure, lifecycle,
                               docker_compose_dir, engine_provider>>
           ELSE /\ ScopeEnd(r.cmds, r.panic, dropResp)
                /\ lifecycle' = Append(lifecycle, "Stopped")

\* DockerCompose::get_container_socket
GetContainerSocket(service_name, unmapped_port, resp, dropResp) ==
    /\ scope = "alive"
    /\ calls < MaxCalls
    /\ calls' = calls + 1
    /\ \E r \in {get_container_socket(engine_provider, project_name,
                                      service_name, unmapped_port, resp)} :
        /\ IF r.panic = NoPanic
           THEN /\ log' = log \o r.cmds
                /\ ret' = [op |-> "get_container_socket",
                           service_name |-> service_name,
                           unmapped_port |-> unmapped_port,
                           host |-> r.value.host, port |-> r.value.port]
                /\ UNCHANGED <<scope, failure, lifecycle, project_name,
                               docker_compose_dir, engine_provider>>
           ELSE /\ ScopeEnd(r.cmds, r.panic, dropResp)
                /\ lifecycle' = Append(lifecycle, "Stopped")

\* DockerCompose::project_name
ProjectName ==
    /\ scope = "alive"
    /\ calls < MaxCalls
    /\ calls' = calls + 1
    /\ ret' = [op |-> "project_name", service_name |-> <<>>,
               unmapped_port |-> -1, host |-> project_name, port |-> -1]
    /\ UNCHANGED <<scope, project_name, docker_compose_dir, engine_provider,
                   log, failure, lifecycle>>

\* the owning scope ends normally (at its end or by an early return) and the
\* fixture is released
Release(dropResp) ==
    /\ scope = "alive"
    /\ ScopeEnd(<<>>, NoPanic, dropResp)
    /\ lifecycle' = Append(lifecycle, "Stopped")
    /\ UNCHANGED calls

Next ==
    \/ \E pn \in ProjectNames, dir \in ComposeDirs,
          resp \in Responses(VersionOutputs) : New(pn, dir, resp)
    \/ \E archResp \in Responses(ArchOutputs), upResp \in Statuses,
          dropResp \in Statuses : Run(archResp, upResp, dropResp)
    \/ \E s \in ServiceNames, p \in Ports, resp \in Responses(LookupOutputs),
          dropResp \in Statuses : GetContainerSocket(s, p, resp, dropResp)
    \/ ProjectName
    \/ \E dropResp \in Statuses : Release(dropResp)

Spec == Init /\ [][Next]_vars

----------------------------------------------------------------------------
(* Endpoint resolution on its own: one get_container_socket call on a      *)
(* freshly constructed fixture, over a wider range of arguments and of     *)
(* subprocess outputs.                                                     *)

ResolvePorts == {0, 6379, 65535}

\* host parts of a port-query output: IPv4, well-formed and not
HostTexts4 ==
    {<<"0",".","0",".","0",".","0">>,
     <<"1","2","7",".","0",".","0",".","1">>,
     <<"1","7","2",".","1","8",".","0",".","3">>,
     <<"2","5","5",".","2","5","5",".","2","5","5",".","2","5","5">>,
     <<"0","0",".","0",".","0",".","0">>,
     <<"0","1",".","2",".","3",".","4">>,
     <<"2","5","6",".","0",".","0",".","1">>,
     <<"1",".","2",".","3">>,
     <<"0",".","0",".","0",".","0",".","0">>}

\* host parts of a port-query output: IPv6, well-formed and not
HostTexts6 ==
    {<<"[",":",":","]">>,
     <<"[",":",":","1","]">>,
     <<"[","0",":","0",":","0",":","0",":","0",":","0",":","0",":","0","]">>,
     <<"[","0",":","0",":","0",":","0",":","0",":","0",":","0",":","1","]">>,
     <<"[","F","E","8","0",":",":","0","0","0","1","]">>,
     <<"[","1",":","0",":","0",":","2",":","0",":","0",":","0",":","3","]">>,
     <<"[",":",":","f","f","f","f",":","1",".","2",".","3",".","4","]">>,
     <<"[",":",":","0",".","0",".","0",".","0","]">>,
     <<"[","1",":",":","2",":",":","3","]">>,
     <<":",":">>,
     <<"[",":",":","1">>}

\* port parts of a port-query output
PortTexts ==
    {<<"5","4","3","2","1">>, <<"0">>, <<"0","8","0">>,
     <<"6","5","5","3","5">>, <<"6","5","5","3","6">>,
     <<"6","3","7","9">>, <<"8","a">>, <<>>}

\* white space around an output: <<before, after>>
Paddings == {<<<<>>, <<>>>>, <<<<>>, <<"\n">>>>, <<<<" ">>, <<" ","\n">>>>}

ResolveOutputs ==
    {pad[1] \o h \o <<":">> \o p \o pad[2] :
        h \in HostTexts4 \cup HostTexts6, p \in PortTexts, pad \in Paddings}
    \cup {pad[1] \o h \o pad[2] : h \in HostTexts4, pad \in Paddings}
    \cup {<<"0",".","0",".","0",".","0",":","8","0","\n",
            "[",":",":","]",":","8","0">>,
          <<"1"," ","2">>, <<>>}

InitResolve ==
    \E pn \in ProjectNames, dir \in ComposeDirs,
       resp \in {r \in Responses(VersionOutputs) : r.ok} :
        /\ scope = "alive"
        /\ project_name = pn
        /\ docker_compose_dir = dir
        /\ engine_provider = get_engine_provider(resp).value
        /\ log = get_engine_provider(resp).cmds
        /\ failure = NoPanic
        /\ ret = NoReturn
        /\ lifecycle = <<"Uninitialized">>
        /\ calls = 0

NextResolve ==
    /\ calls = 0
    /\ \E s \in ServiceNames, p \in ResolvePorts,
          resp \in Responses(ResolveOutputs), dropResp \in Statuses :
            GetContainerSocket(s, p, resp, dropResp)

SpecResolve == InitResolve /\ [][NextResolve]_vars

----------------------------------------------------------------------------
(* Engine detection on its own: one construction, over a wider range of    *)
(* outputs of the version probe.                                           *)

\* what the version probe may print, without the white space around it
VersionTexts ==
    {<<"D","o","c","k","e","r"," ","v","e","r","s","i","o","n"," ","2","4">>,
     <<"p","o","d","m","a","n"," ","v","e","r","s","i","o","n"," ","4">>,
     <<"P","O","D","M","A","N"," ","4">>,
     <<"P","o","d","m","a","n">>,
     <<"p","O","d","M","a","N">>,
     <<"d","o","c","k","e","r"," ","(","P","o","d","M","a","n",")">>,
     <<"p","o","d"," ","m","a","n">>,
     <<"p","o","d","m","a">>,
     <<"o","d","m","a","n">>,
     <<>>,
     <<"p","o","d","\n","m","a","n">>,
     <<"n","a","m","p","o","d">>,
     <<"p","p","o","d","m","a","n","n">>,
     <<"P","o","d","m","a","n","-","d","o","c","k","e","r"," ","5">>}

VersionPaddings == Paddings \cup {<<<<"\t","\n">>, <<"\n","\n">>>>}

DetectOutputs ==
    {pad[1] \o v \o pad[2] : v \in VersionTexts, pad \in VersionPaddings}

NextDetect ==
    \E pn \in ProjectNames, dir \in ComposeDirs,
       resp \in Responses(DetectOutputs) : New(pn, dir, resp)

SpecDetect == Init /\ [][NextDetect]_vars

----------------------------------------------------------------------------
(* Properties *)

\* number of invocations of sub-command cmd issued so far
Count(cmd) == Cardinality({i \in 1..Len(log) : log[i].cmd = cmd})

\* a fixture handle has come into existence
Constructed == lifecycle /= <<>>

\* the owning scope has been left
Exited == scope \in {"returned", "failed", "aborted"}

\* the tear-down command was issued and failed
TeardownFailed ==
    \E i \in 1..Len(log) : log[i].cmd = "compose down" /\ ~log[i].ok

\* C1: for every constructed fixture the tear-down command is issued exactly
\* once on every exit path from the owning scope (normal release, early
\* return, failure of run, failure of a resolve call): never twice, and never
\* zero times once the scope has been left.
C1_TeardownExactlyOnce ==
    /\ Count("compose down") <= 1
    /\ (Constructed /\ Exited) => Count("compose down") = 1
    /\ (Constructed /\ ~Exited) => Count("compose down") = 0

\* C1 witness: run failed on the bring-up, the scope was unwound and the
\* tear-down was issued once.
C1_Witness ==
    /\ scope = "failed"
    /\ failure = "Starting docker compose"
    /\ Count("compose down") = 1

\* C2: a failure of the tear-down command is only logged: tear-down never
\* panics and never aborts the process.
C2_TeardownFailureOnlyLogged ==
    TeardownFailed =>
        /\ scope /= "aborted"
        /\ failure /= "Stopping docker compose"

\* C3: when tear-down runs while another failure is propagating and the
\* tear-down command fails too, the failure reported to the caller is the
\* original one and the process is not aborted.
C3_OriginalFailureReported ==
    (TeardownFailed /\ failure \notin {NoPanic, "Stopping docker compose"}) =>
        scope = "failed"

\* C4: releasing a fixture that never reached Ready still issues the tear-down
\* command and raises no fatal error from it.
C4_NeverStartedTeardownNotFatal ==
    (Constructed /\ Exited /\ \A k \in 1..Len(lifecycle) : lifecycle[k] /= "Ready")
        => /\ Count("compose down") = 1
           /\ scope /= "aborted"
           /\ failure /= "Stopping docker compose"

\* C5: Stopped is terminal: once the tear-down command has been issued the
\* fixture issues no further command (no bring-up, no lookup) and never
\* re-enters Starting or Ready; its life starts in Uninitialized.
C5_StoppedIsTerminal ==
    /\ \A i \in 1..Len(log) : log[i].cmd = "compose down" => i = Len(log)
    /\ \A k \in 1..Len(lifecycle) :
          /\ lifecycle[k] = "Stopped" => k = Len(lifecycle)
          /\ lifecycle[k] = "Uninitialized" <=> k = 1
    /\ Count("compose down") = 1 => (Exited /\ lifecycle[Len(lifecycle)] = "Stopped")

\* C5 witness: a fixture that was started and used for a lookup has been
\* stopped.
C5_Witness ==
    /\ Count("compose down") = 1
    /\ Count("compose up") = 1
    /\ Count("inspect") + Count("port") = 1

StartCalls == Cardinality({k \in 1..Len(lifecycle) : lifecycle[k] = "Starting"})

C7_DetectionFailureAbortsConstruction ==
    (log /= <<>> /\ ~log[1].ok) =>
        /\ Len(log) = 1
        /\ ~Constructed
        /\ engine_provider = NoEngine
        /\ scope = "failed"
        /\ failure = "Get engine provider"

\* C7 witness: the version probe has failed.
C7_Witness ==
    /\ log /= <<>>
    /\ log[1].cmd = "--version"
    /\ ~log[1].ok

\* C8: when the bring-up command fails inside run, run fails fatally without
\* retry: that call issued exactly one bring-up command (right after its
\* platform query), the fixture goes from Starting to Stopped without
\* reaching Ready, and the only command issued afterwards is the tear-down.
C8_BringUpFailureIsFatal ==
    \A i \in 1..Len(log) :
        (log[i].cmd = "compose up" /\ ~log[i].ok) =>
            /\ i > 1 /\ log[i - 1].cmd = "version"
            /\ i = Len(log) - 1
            /\ log[Len(log)].cmd = "compose down"
            /\ scope \in {"failed", "aborted"}
            /\ failure = "Starting docker compose"
            /\ SubSeq(lifecycle, Len(lifecycle) - 1, Len(lifecycle))
                   = <<"Starting", "Stopped">>

\* C8 witness: a bring-up has failed and the failure has reached the caller.
C8_Witness ==
    /\ \E i \in 1..Len(log) : log[i].cmd = "compose up" /\ ~log[i].ok
    /\ scope = "failed"

----------------------------------------------------------------------------
(* Properties of endpoint resolution, stated on the text of the output *)

\* x is raw without its leading and trailing white space
IsTrimOf(raw, x) ==
    \E a \in 0..Len(raw), b \in 0..Len(raw) :
        /\ a + b <= Len(raw)
        /\ x = SubSeq(raw, a + 1, Len(raw) - b)
        /\ \A k \in 1..a : raw[k] \in White
        /\ \A k \in (Len(raw) - b + 1)..Len(raw) : raw[k] \in White
        /\ x /= <<>> => (x[1] \notin White /\ x[Len(x)] \notin White)

\* raw from its first to its last character that is not white space
TrimmedText(raw) ==
    LET black == {k \in 1..Len(raw) : raw[k] \notin White}
    IN  IF black = {} THEN <<>>
        ELSE SubSeq(raw, CHOOSE k \in black : \A j \in black : k <= j,
                         CHOOSE k \in black : \A j \in black : j <= k)

\* index of the last ":" of text
LastColon(text) ==
    CHOOSE k \in 1..Len(text) :
        text[k] = ":" /\ \A j \in (k + 1)..Len(text) : text[j] /= ":"

\* the number a text of decimal digits denotes
RECURSIVE Decimal(_)
Decimal(text) ==
    IF text = <<>> THEN 0
    ELSE 10 * Decimal(SubSeq(text, 1, Len(text) - 1))
         + (CHOOSE d \in 0..9 : DecChars[d + 1] = text[Len(text)])

\* a host text all of whose groups are zero: 0.0.0.0, [::] and their other
\* spellings
Wildcard(hostText) ==
    \A k \in 1..Len(hostText) : hostText[k] \in {"0", ".", ":", "[", "]"}

\* two texts that denote the same IPv6 address
SameV6(a, b) ==
    /\ read_ipv6_addr(a, 1).ok /\ read_ipv6_addr(a, 1).pos = Len(a) + 1
    /\ read_ipv6_addr(b, 1).ok /\ read_ipv6_addr(b, 1).pos = Len(b) + 1
    /\ read_ipv6_addr(a, 1).val = read_ipv6_addr(b, 1).val

Loopback == <<"1","2","7",".","0",".","0",".","1">>

\* C9: under Podman, whenever get_container_socket returns, the port query's
\* trimmed output is host:port; the returned port is the number written after
\* the last ":" (the mapped port, not the port passed in); the returned host
\* is 127.0.0.1 if the host is the wildcard address, and otherwise the host
\* of the output: the same text for IPv4, the same address for IPv6.
C9_SecondaryMapsSocket ==
    (ret.op = "get_container_socket" /\ engine_provider = Podman) =>
        \E q \in {log[Len(log)]} :
        \E t \in {TrimmedText(q.stdout)} :
        \E k \in {LastColon(t)} :
        \E hostText \in {SubSeq(t, 1, k - 1)}, portText \in {SubSeq(t, k + 1, Len(t))} :
            /\ q.cmd = "port" /\ q.ok
            /\ q.port = ret.unmapped_port
            /\ ret.port = Decimal(portText)
            /\ IF Wildcard(hostText) THEN ret.host = Loopback
               ELSE IF hostText[1] = "["
               THEN SameV6(ret.host, SubSeq(hostText, 2, Len(hostText) - 1))
               ELSE ret.host = hostText

\* C9 witness: project "it", service "redis", internal port 6379, Podman, the
\* port query prints 0.0.0.0:54321: the result is ("127.0.0.1", 54321).
C9_Witness ==
    /\ engine_provider = Podman
    /\ project_name = <<"i","t">>
    /\ ret.op = "get_container_socket"
    /\ ret.service_name = <<"r","e","d","i","s">>
    /\ ret.unmapped_port = 6379
    /\ log[Len(log)].stdout
         = <<"0",".","0",".","0",".","0",":","5","4","3","2","1","\n">>
    /\ ret.host = Loopback
    /\ ret.port = 54321

\* C10: under Docker, whenever get_container_socket returns, the result is
\* the trimmed output of the inspect command and the internal port unchanged,
\* for every service name and every internal port.
C10_PrimaryKeepsInternalPort ==
    (ret.op = "get_container_socket" /\ engine_provider = Docker) =>
        LET q == log[Len(log)]
        IN  /\ q.cmd = "inspect" /\ q.ok
            /\ ret.port = ret.unmapped_port
            /\ IsTrimOf(q.stdout, ret.host)

\* C10 witness: project "it", service "redis", internal port 6379, Docker,
\* inspect prints 172.18.0.3: the result is ("172.18.0.3", 6379).
C10_Witness ==
    /\ engine_provider = Docker
    /\ project_name = <<"i","t">>
    /\ ret.op = "get_container_socket"
    /\ ret.service_name = <<"r","e","d","i","s">>
    /\ ret.unmapped_port = 6379
    /\ log[Len(log)].stdout = <<"1","7","2",".","1","8",".","0",".","3","\n">>
    /\ ret.host = <<"1","7","2",".","1","8",".","0",".","3">>
    /\ ret.port = 6379

----------------------------------------------------------------------------
(* What a socket address looks like, stated on the text *)

\* text cut at every sep
RECURSIVE Split(_, _)
Split(text, sep) ==
    IF \A k \in 1..Len(text) : text[k] /= sep THEN <<text>>
    ELSE LET k == CHOOSE j \in 1..Len(text) :
                      text[j] = sep /\ \A h \in 1..(j - 1) : text[h] /= sep
         IN  <<SubSeq(text, 1, k - 1)>>
             \o Split(SubSeq(text, k + 1, Len(text)), sep)

DecDigits == {"0","1","2","3","4","5","6","7","8","9"}
HexDigits == DecDigits \cup {"a","b","c","d","e","f","A","B","C","D","E","F"}

\* text without its leading "0"s
RECURSIVE StripZeros(_)
StripZeros(text) ==
    IF text /= <<>> /\ Head(text) = "0" THEN StripZeros(Tail(text)) ELSE text

\* one to three decimal digits, no leading zero, at most 255
OctetText(x) ==
    /\ Len(x) \in 1..3
    /\ \A k \in 1..Len(x) : x[k] \in DecDigits
    /\ Len(x) > 1 => x[1] /= "0"
    /\ Decimal(x) <= 255

\* four octets separated by "."
V4Text(x) ==
    LET parts == Split(x, ".")
    IN  Len(parts) = 4 /\ \A k \in 1..4 : OctetText(parts[k])

\* one to four hexadecimal digits
GroupText(x) ==
    Len(x) \in 1..4 /\ \A k \in 1..Len(x) : x[k] \in HexDigits

\* the groups of a part of an IPv6 text
Groups(x) == IF x = <<>> THEN <<>> ELSE Split(x, ":")

\* groups, the last of which may be an IPv4 address
GroupsText(gs, v4Allowed) ==
    \A k \in 1..Len(gs) :
        GroupText(gs[k]) \/ (v4Allowed /\ k = Len(gs) /\ V4Text(gs[k]))

\* number of 16-bit groups that gs denotes: an IPv4 address stands for two
Width(gs) ==
    Len(gs) + (IF gs /= <<>> /\ V4Text(gs[Len(gs)]) THEN 1 ELSE 0)

\* eight groups, or fewer around one "::"
V6Text(x) ==
    LET dbl == {j \in 1..(Len(x) - 1) : x[j] = ":" /\ x[j + 1] = ":"}
    IN  IF dbl = {}
        THEN GroupsText(Groups(x), TRUE) /\ x /= <<>> /\ Width(Groups(x)) = 8
        ELSE \E j \in dbl :
                LET left == Groups(SubSeq(x, 1, j - 1))
                    right == Groups(SubSeq(x, j + 2, Len(x)))
                IN  /\ GroupsText(left, FALSE)
                    /\ GroupsText(right, TRUE)
                    /\ Len(left) + Width(right) <= 7

\* decimal digits that denote at most 65535
PortText(x) ==
    /\ x /= <<>>
    /\ \A k \in 1..Len(x) : x[k] \in DecDigits
    /\ Len(StripZeros(x)) <= 5
    /\ Decimal(StripZeros(x)) <= 65535

\* host:port, the host an IPv4 address or an IPv6 address in brackets
SocketText(t) ==
    /\ \E k \in 1..Len(t) : t[k] = ":"
    /\ \E k \in {LastColon(t)} :
       \E host \in {SubSeq(t, 1, k - 1)}, port \in {SubSeq(t, k + 1, Len(t))} :
          /\ PortText(port)
          /\ \/ V4Text(host)
             \/ /\ Len(host) >= 2
                /\ host[1] = "[" /\ host[Len(host)] = "]"
                /\ V6Text(SubSeq(host, 2, Len(host) - 1))

\* C11: get_container_socket never yields a partial or degraded result.  If
\* the inspect or port-query subprocess fails, or (Podman) its trimmed output
\* is not a socket address host:port, the call panics, nothing is returned
\* and only the tear-down of the unwinding scope follows; a pair is returned
\* only when the subprocess succeeded and (Podman) its output was a socket
\* address.  Docker's inspect output is not validated by the code and is
\* usable as it is.
C11_NoDegradedResult ==
    \A i \in 1..Len(log) :
        log[i].cmd \in {"inspect", "port"} =>
            \E q \in {log[i]} :
            \E wellFormed \in {q.cmd = "port" => SocketText(TrimmedText(q.stdout))} :
                IF q.ok /\ wellFormed
                THEN /\ i = Len(log)
                     /\ ret.op = "get_container_socket"
                     /\ scope = "alive"
                     /\ failure = NoPanic
                ELSE /\ ret = NoReturn
                     /\ scope \in {"failed", "aborted"}
                     /\ failure = IF q.ok THEN "Unable to parse socket address"
                                  ELSE IF q.cmd = "inspect"
                                       THEN "Get container ip"
                                       ELSE "Get port mapping"
                     /\ i = Len(log) - 1
                     /\ log[Len(log)].cmd = "compose down"

\* C11 witness: under Podman the port query succeeded and printed
\* "256.0.0.1:54321", which is no socket address: the call panicked on the
\* parse and returned nothing.
C11_Witness ==
    /\ engine_provider = Podman
    /\ \E i \in 1..Len(log) :
          /\ log[i].cmd = "port" /\ log[i].ok
          /\ log[i].stdout = <<"2","5","6",".","0",".","0",".","1",":",
                               "5","4","3","2","1">>
    /\ failure = "Unable to parse socket address"
    /\ scope = "failed"
    /\ ret = NoReturn

----------------------------------------------------------------------------
(* Properties of engine detection *)

\* the letters of the secondary engine's name, in either case
NameCases == <<{"p","P"}, {"o","O"}, {"d","D"}, {"m","M"}, {"a","A"}, {"n","N"}>>

\* text holds the secondary engine's name, in any letter casing
HoldsName(text) ==
    \E i \in 1..(Len(text) - 5) : \A k \in 1..6 : text[i + k - 1] \in NameCases[k]

\* C12: the engine variant is determined by exactly one version probe, the
\* first command of the fixture, and does not change afterwards: in every
\* state of a constructed fixture the stored variant is the one the probe's
\* output stands for, and neither run, get_container_socket nor drop issues
\* the probe again.
C12_EngineDeterminedOnce ==
    /\ Count("--version") <= 1
    /\ log /= <<>> => log[1].cmd = "--version"
    /\ ~Constructed => engine_provider = NoEngine
    /\ Constructed =>
          /\ log[1].ok
          /\ engine_provider = IF HoldsName(log[1].stdout) THEN Podman ELSE Docker

\* C12 witness: a Podman fixture was started, resolved an endpoint and was
\* released, and the probe was issued once.
C12_Witness ==
    /\ engine_provider = Podman
    /\ Count("--version") = 1
    /\ Count("compose up") = 1
    /\ Count("port") = 1
    /\ Count("compose down") = 1
    /\ scope = "returned"

\* C13: the engine is a function of the probe's output alone: every output
\* that holds "podman" in any letter casing, with any white space before and
\* after it, gives Podman, and every other output, the empty one included,
\* gives Docker.
C13_ClassificationByName ==
    Constructed =>
        /\ HoldsName(log[1].stdout) => engine_provider = Podman
        /\ ~HoldsName(log[1].stdout) => engine_provider = Docker
        /\ engine_provider
             = IF contains(to_lowercase(TrimmedText(log[1].stdout)), Podman_name)
               THEN Podman ELSE Docker

\* C13 witness: the probe printed " PODMAN 4 \n" and the engine is Podman.
C13_Witness ==
    /\ Constructed
    /\ log[1].stdout = <<" ","P","O","D","M","A","N"," ","4"," ","\n">>
    /\ engine_provider = Podman

----------------------------------------------------------------------------
(* Properties of the steps of a fixture *)

\* the invocations issued by the step
Issued == SubSeq(log', Len(log) + 1, Len(log'))

\* the step is a call of run: it starts with the platform query
RunCall ==
    calls' = calls + 1 /\ Len(log') > Len(log) /\ Issued[1].cmd = "version"

\* the step is a call of get_container_socket
ResolveCall ==
    calls' = calls + 1 /\ Len(log') > Len(log) /\ Issued[1].cmd /= "version"

\* the step is a call of project_name
ProjectNameCall == calls' = calls + 1 /\ log' = log

\* (host, port) is what the output out of a port query stands for
MappedFrom(out, host, port) ==
    \E t \in {TrimmedText(out)} :
    \E k \in {LastColon(t)} :
    \E hostText \in {SubSeq(t, 1, k - 1)}, portText \in {SubSeq(t, k + 1, Len(t))} :
        /\ port = Decimal(portText)
        /\ IF Wildcard(hostText) THEN host = Loopback
           ELSE IF hostText[1] = "["
           THEN SameV6(host, SubSeq(hostText, 2, Len(hostText) - 1))
           ELSE host = hostText

\* C14: every get_container_socket call issues exactly one lookup, its first
\* command: inspect and never port under Docker, port and never inspect under
\* Podman, as the stored engine says; when the call returns, it issued
\* nothing else and its result is computed from the output of that lookup,
\* not from an earlier call.
C14_OneFreshLookupPerCall ==
    [][ResolveCall =>
        /\ {k \in 1..Len(Issued) : Issued[k].cmd \in {"inspect", "port"}} = {1}
        /\ Issued[1].cmd = IF engine_provider = Docker THEN "inspect" ELSE "port"
        /\ \A k \in 1..Len(Issued) : Issued[k].cmd /= "--version"
        /\ scope' = "alive" =>
              /\ Len(Issued) = 1
              /\ Issued[1].ok
              /\ ret'.op = "get_container_socket"
              /\ Issued[1].port
                   = IF engine_provider = Docker THEN -1 ELSE ret'.unmapped_port
              /\ IF engine_provider = Docker
                 THEN /\ ret'.host = TrimmedText(Issued[1].stdout)
                      /\ ret'.port = ret'.unmapped_port
                 ELSE MappedFrom(Issued[1].stdout, ret'.host, ret'.port)
      ]_vars

\* C14 witness: two calls under Podman, the port query printing
\* "0.0.0.0:54321" for the first and "10.0.0.5:80" for the second: the second
\* call returned ("10.0.0.5", 80).
C14_Witness ==
    /\ engine_provider = Podman
    /\ Len(log) = 3
    /\ log[2].cmd = "port" /\ log[3].cmd = "port"
    /\ log[2].stdout = <<"0",".","0",".","0",".","0",":","5","4","3","2","1","\n">>
    /\ log[3].stdout = <<" ","1","0",".","0",".","0",".","5",":","8","0">>
    /\ ret.op = "get_container_socket"
    /\ ret.host = <<"1","0",".","0",".","0",".","5">>
    /\ ret.port = 80

\* c is "{P}-{S}-1"
IsContainerName(c, P, S) ==
    /\ Len(c) = Len(P) + Len(S) + 3
    /\ SubSeq(c, 1, Len(P)) = P
    /\ c[Len(P) + 1] = "-"
    /\ SubSeq(c, Len(P) + 2, Len(P) + 1 + Len(S)) = S
    /\ c[Len(c) - 1] = "-"
    /\ c[Len(c)] = "1"

\* the commands issued so far and the value returned by project_name() carry
\* the project name and the project directory of the fixture
NamedByProject ==
    /\ \A i \in 1..Len(log) :
          /\ log[i].cmd \in {"compose up", "compose down"} =>
                /\ Constructed
                /\ log[i].project = project_name
                /\ log[i].cwd = docker_compose_dir
          /\ log[i].cmd \in {"inspect", "port"} =>
                \E S \in ServiceNames :
                    IsContainerName(log[i].container, project_name, S)
    /\ ret.op = "project_name" => ret.host = project_name

\* a step keeps the project name and directory of a constructed fixture, looks
\* up the container of the service it was called with, and project_name()
\* returns the name
KeepsProject ==
    /\ Constructed =>
          /\ project_name' = project_name
          /\ docker_compose_dir' = docker_compose_dir
    /\ (ResolveCall /\ scope' = "alive") =>
          IsContainerName(Issued[1].container, project_name, ret'.service_name)
    /\ ProjectNameCall => ret'.host = project_name

\* C15: the project name and the project directory of a constructed fixture
\* never change; project_name() returns that name; every bring-up and
\* tear-down command is issued with that name and in that directory; and
\* every lookup, inspect or port, is made on the container "{P}-{S}-1" for the
\* project name P and the service name S of the call.
C15_ProjectNameStable == []NamedByProject /\ [][KeepsProject]_vars

\* C15 witness: the fixture of project "ci" in "/b" was started, resolved
\* service "db" by a lookup of "ci-db-1" and was stopped by a tear-down of
\* project "ci" in "/b".
C15_Witness ==
    /\ project_name = <<"c","i">>
    /\ docker_compose_dir = <<"/","b">>
    /\ Len(log) = 5
    /\ log[3].cmd = "compose up" /\ log[3].project = <<"c","i">>
    /\ log[3].cwd = <<"/","b">>
    /\ log[4].container = <<"c","i","-","d","b","-","1">>
    /\ log[5].cmd = "compose down" /\ log[5].project = <<"c","i">>
    /\ log[5].cwd = <<"/","b">>
    /\ ret.op = "get_container_socket" /\ ret.service_name = <<"d","b">>

\* C16: within run, the platform query is issued right before the bring-up
\* command, and the bring-up's DOCKER_DEFAULT_PLATFORM is the query's output
\* without the white space around it; a platform query that succeeded is
\* followed by the bring-up; if the platform query fails, run panics with it,
\* no bring-up is issued for that call, and the only command that follows is
\* the tear-down of the released fixture.
C16_PlatformBeforeBringUp ==
    \A i \in 1..Len(log) :
        /\ log[i].cmd = "compose up" =>
              /\ i > 1
              /\ log[i - 1].cmd = "version" /\ log[i - 1].ok
              /\ log[i].env = TrimmedText(log[i - 1].stdout)
        /\ (log[i].cmd = "version" /\ log[i].ok) =>
              i < Len(log) /\ log[i + 1].cmd = "compose up"
        /\ (log[i].cmd = "version" /\ ~log[i].ok) =>
              /\ i = Len(log) - 1
              /\ log[Len(log)].cmd = "compose down"
              /\ scope \in {"failed", "aborted"}
              /\ failure = "Get os arch"

\* C16 witness: a first run brought the project up for the platform "amd64"
\* that the query printed as "amd64\n"; in a second run the platform query
\* failed: no second bring-up, and the tear-down was issued.
C16_Witness ==
    /\ Len(log) = 5
    /\ log[2].cmd = "version" /\ log[2].stdout = <<"a","m","d","6","4","\n">>
    /\ log[3].cmd = "compose up" /\ log[3].env = <<"a","m","d","6","4">>
    /\ log[4].cmd = "version" /\ ~log[4].ok
    /\ log[5].cmd = "compose down"
    /\ failure = "Get os arch"
    /\ scope = "failed"

\* what a call of get_container_socket or of project_name leaves alone.  A
\* call that panics changes nothing either; the panic unwinds the owning
\* scope, which releases the fixture: the tear-down that then follows is
\* issued by drop, not by the call.
ReadOnly ==
    /\ project_name' = project_name
    /\ docker_compose_dir' = docker_compose_dir
    /\ engine_provider' = engine_provider
    /\ \A k \in 1..Len(Issued) : Issued[k].cmd /= "compose up"
    /\ IF scope' = "alive"
       THEN /\ lifecycle' = lifecycle
            /\ failure' = failure
            /\ \A k \in 1..Len(Issued) : Issued[k].cmd /= "compose down"
       ELSE /\ ResolveCall
            /\ failure' \in {"Get container ip", "Get port mapping",
                              "Unable to parse socket address"}
            /\ Len(Issued) = 2
            /\ Issued[1].cmd \in {"inspect", "port"}
            /\ Issued[2].cmd = "compose down"
            /\ lifecycle' = Append(lifecycle, "Stopped")

\* C17: get_container_socket and project_name() are read-only: whether they
\* return or panic, they leave the project name, the project directory and
\* the stored engine unchanged and issue neither a bring-up nor a tear-down
\* command themselves, and a call that returns leaves the lifecycle state as
\* it was; get_container_socket can be called in any state before Stopped,
\* before run too.
C17_QueriesAreReadOnly == [][(ResolveCall \/ ProjectNameCall) => ReadOnly]_vars

\* C17 witness: get_container_socket returned on a fixture that was never
\* started; the fixture is still Uninitialized and nothing but the lookup was
\* issued.
C17_Witness ==
    /\ lifecycle = <<"Uninitialized">>
    /\ scope = "alive"
    /\ ret.op = "get_container_socket"
    /\ Count("compose up") = 0 /\ Count("compose down") = 0
    /\ Count("inspect") = 1
    /\ Len(log) = 2
    /\ project_name = <<"i","t">>
    /\ engine_provider = Docker

====
